---- MODULE Spec2Model ----
(***************************************************************************)
(* A model of pysana (src/asana.py): the transport layer of AsanaClient    *)
(* (get/post/put, _check_http_status, _handle_response) and the resource   *)
(* layer built on it (User, Workspace, Project, Tag, Task, Story).         *)
(*                                                                         *)
(* The library is single-threaded and synchronous, so every call of the    *)
(* caller is one atomic action.  The remote service is the environment:    *)
(* each action draws the service's answers to the requests it makes.       *)
(*                                                                         *)
(* Python values are modelled as follows.                                  *)
(*   - an exception or a normal return is a record with field exc          *)
(*     (exc = "None" for a normal return, which then carries value);       *)
(*   - r.json is JsonNone when the body does not parse, else a record      *)
(*     whose DOMAIN is the set of the JSON object's keys;                  *)
(*   - the content-type header is the sequence of its ';'-separated parts; *)
(*   - a caller-supplied argument of unknown type is a record              *)
(*     [t |-> <type name>, v |-> <integer it denotes>].                    *)
(***************************************************************************)
EXTENDS Integers, Sequences, FiniteSets, TLC

VARIABLES obj, last

vars == <<obj, last>>

----
(* Bounds of the model *)

\* a relationship list of the service holds at most MaxRel records
MaxRel == 1
\* the interpreter stops a recursion after RecursionLimit entries of a method
RecursionLimit == 3

\* the identifiers of the service's records: the code copies an id into a
\* path or a payload and never computes with it, so two of them are enough
Ids == {1, 2}
Names == {"a", "b"}
Messages == {"not found", "oops"}
Phrases == {"6 sad squid"}

----
(* Python results and JSON values *)

Return(v) == [exc |-> "None", value |-> v]
Raise(kind) == [exc |-> kind]
Raised(out) == out.exc # "None"
AsanaError(text) == [exc |-> "AsanaError", text |-> text]

\* None, as a JSON value and as a Python value
JsonNone == [null |-> TRUE]
\* a JSON array
JList(s) == [list |-> s]
IsList(x) == "list" \in DOMAIN x

\* what x[k] raises for a JSON value x and a string key k ("None": nothing)
GetItemError(x, k) ==
    IF x = JsonNone THEN "TypeError"
    ELSE IF IsList(x) THEN "TypeError"
    ELSE IF k \notin DOMAIN x THEN "KeyError"
    ELSE "None"

\* Python's truth value of a JSON value: None and [] are false
Truthy(x) == x # JsonNone /\ (IsList(x) => x.list # <<>>)

\* caller-supplied Python values whose type the code tests
PyNone == [t |-> "NoneType"]
PyInt(n) == [t |-> "int", v |-> n]
PyStr(s) == [t |-> "str", s |-> s]
PyUnicode(s) == [t |-> "unicode", s |-> s]
PyFloat(n) == [t |-> "float", v |-> n]
PyBool(b) == [t |-> "bool", v |-> IF b THEN 1 ELSE 0]
\* a live resource object passed as an argument, with its id property
PyObj(kind, id) == [t |-> kind, id |-> id]

\* Python's truth value of such an argument
PyTruthy(x) ==
    CASE x.t = "NoneType" -> FALSE
      [] x.t \in {"int", "float", "bool"} -> x.v # 0
      [] x.t \in {"str", "unicode"} -> x.s # ""
      [] OTHER -> TRUE

\* isinstance(x, cls): bool is a subclass of int
isinstance(x, cls) == x.t = cls \/ (cls = "int" /\ x.t = "bool")

----
(* Transport layer: AsanaClient *)

StatusCodes == {200, 201, 302, 400, 401, 402, 403, 404, 429, 500, 502, 503}

ContentTypes == { <<"application/json">>,
                  <<"application/json", " charset=UTF-8">>,
                  <<"text/html">>,
                  <<"text/html", " charset=UTF-8">> }

ErrorBodies ==
    { [errors |-> JList(<<[message |-> m]>>)] : m \in Messages }
    \cup { [errors |-> JList(<<[message |-> m, phrase |-> p]>>)] :
             m \in Messages, p \in Phrases }

\* the bodies the transport is tried on: unparsable, an error envelope, a
\* data envelope
Bodies == {JsonNone} \cup ErrorBodies \cup { [data |-> [id |-> 1]] }

Responses == [status_code : StatusCodes, headers : ContentTypes, json : Bodies]

\* error_message = r.json['errors'][0]['message']
error_message(r) ==
    IF GetItemError(r.json, "errors") # "None"
    THEN Raise(GetItemError(r.json, "errors"))
    ELSE IF ~IsList(r.json.errors) THEN Raise("KeyError")
    ELSE IF r.json.errors.list = <<>> THEN Raise("IndexError")
    ELSE IF GetItemError(r.json.errors.list[1], "message") # "None"
    THEN Raise(GetItemError(r.json.errors.list[1], "message"))
    ELSE Return(r.json.errors.list[1].message)

\* the status codes of the first branch of _check_http_status
\* (a variant without 429)
ListedErrorCodesShort == {400, 401, 403, 404}
ListedErrorCodes == {400, 401, 403, 404, 429}

\* the 500 branch: phrase is read from the body, then the raise evaluates
\* the name ph, which is bound nowhere
ServerError(r) ==
    IF GetItemError(r.json.errors.list[1], "phrase") # "None"
    THEN Raise(GetItemError(r.json.errors.list[1], "phrase"))
    ELSE Raise("NameError")

\* _check_http_status(r): Return(JsonNone) when it returns, else what it raises
_check_http_status(r) ==
    IF r.status_code = 200 \/ r.status_code = 201 THEN Return(JsonNone)
    ELSE IF Raised(error_message(r)) THEN error_message(r)
    ELSE IF r.status_code \in ListedErrorCodes
         THEN [exc |-> "AsanaError", status |-> r.status_code,
               message |-> error_message(r).value]
    ELSE IF r.status_code = 500 THEN ServerError(r)
    ELSE Return(JsonNone)

\* _handle_response(r)
_handle_response(r) ==
    IF Head(r.headers) = "application/json"
    THEN IF GetItemError(r.json, "data") # "None"
         THEN Raise(GetItemError(r.json, "data"))
         ELSE Return(r.json.data)
    ELSE [exc |-> "AsanaError", notjson |-> TRUE]

\* the tail shared by get, post and put, once requests has answered r:
\* self._check_http_status(r) raises, or self._handle_response(r) is returned
Checked(checked, r) == IF Raised(checked) THEN checked ELSE _handle_response(r)
Receive(r) == Checked(_check_http_status(r), r)

\* the URL below the API root: resource, and endpoint when it is truthy
NoEndpoint == [id |-> 0, sub |-> ""]
Endpoint(id, sub) == [id |-> id, sub |-> sub]
NoData == [none |-> TRUE]
Request(method, resource, endpoint, data) ==
    [method |-> method, resource |-> resource, endpoint |-> endpoint, data |-> data]

\* get / post / put, with r the response requests hands back
get(resource, endpoint, r) ==
    [log |-> << [req |-> Request("GET", resource, endpoint, NoData), resp |-> r] >>,
     out |-> Receive(r)]
post(resource, endpoint, data, r) ==
    [log |-> << [req |-> Request("POST", resource, endpoint, data), resp |-> r] >>,
     out |-> Receive(r)]
put(resource, endpoint, data, r) ==
    [log |-> << [req |-> Request("PUT", resource, endpoint, data), resp |-> r] >>,
     out |-> Receive(r)]

----
(* The remote service (the environment) *)

\* the timestamp of every record, as the milliseconds of
\* '2012-02-22T02:06:58.147Z' past the second
Timestamp == 147

\* the compact records {"id": ..} of a relationship of n records
Compact(n) == JList([i \in 1..n |-> [id |-> ((i - 1) % Cardinality(Ids)) + 1]])

\* what the service holds is p: p.name (names, notes, texts), p.id (the id of
\* a created record and of a single related record), p.rel (the size of each
\* relationship; 0 also means no parent and no assignee)
Optional(p) == IF p.rel = 0 THEN JsonNone ELSE [id |-> p.id]

Record(resource, id, p) ==
    CASE resource = "users" ->
           [id |-> id, name |-> p.name, email |-> "e", workspaces |-> Compact(p.rel)]
      [] resource = "workspaces" ->
           [id |-> id, name |-> p.name]
      [] resource = "projects" ->
           [id |-> id, name |-> p.name, notes |-> p.name, archived |-> FALSE,
            created_at |-> Timestamp, modified_at |-> Timestamp,
            workspace |-> [id |-> p.id], followers |-> Compact(p.rel)]
      [] resource = "tags" ->
           [id |-> id, name |-> p.name, notes |-> p.name,
            created_at |-> Timestamp,
            workspace |-> [id |-> p.id], followers |-> Compact(p.rel)]
      [] resource = "tasks" ->
           [id |-> id, name |-> p.name, notes |-> p.name,
            assignee_status |-> "inbox", completed |-> FALSE,
            created_at |-> Timestamp, modified_at |-> Timestamp,
            completed_at |-> JsonNone, due_on |-> JsonNone,
            tags |-> Compact(p.rel), projects |-> Compact(p.rel),
            followers |-> Compact(p.rel), workspace |-> [id |-> p.id],
            parent |-> Optional(p), assignee |-> Optional(p)]
      [] resource = "stories" ->
           [id |-> id, text |-> p.name, source |-> "web", type |-> "comment",
            created_at |-> Timestamp, created_by |-> [id |-> p.id]]

\* the data the service answers a request with
Data(req, p) ==
    CASE req.endpoint.sub \in {"addTag", "removeTag", "addProject", "removeProject"} ->
           [empty |-> TRUE]
      [] req.method = "POST" /\ req.endpoint.sub = "stories" ->
           [Record("stories", p.id, p) EXCEPT !.text = req.data.text]
      [] req.method = "POST" ->
           Record(req.resource, p.id, p)
      [] req.endpoint.sub = "" ->
           Record(req.resource, req.endpoint.id, p)
      [] OTHER -> Compact(p.rel)

\* The service keeps to its protocol: a response with status 200 or 201
\* carries a data envelope, any other an error envelope or a body that is
\* not JSON.

\* the responses on which a call of the resource layer fails: a listed error
\* status, a server error, a status outside the list, and pages that are
\* not JSON
NotFound ==
    [status_code |-> 404, headers |-> <<"application/json", " charset=UTF-8">>,
     json |-> [errors |-> JList(<<[message |-> "not found"]>>)]]
FailResponses ==
    { NotFound,
      [status_code |-> 500, headers |-> <<"application/json", " charset=UTF-8">>,
       json |-> [errors |-> JList(<<[message |-> "oops", phrase |-> "6 sad squid"]>>)]],
      [status_code |-> 502, headers |-> <<"application/json">>,
       json |-> [errors |-> JList(<<[message |-> "oops"]>>)]],
      [status_code |-> 200, headers |-> <<"text/html", " charset=UTF-8">>,
       json |-> JsonNone],
      [status_code |-> 503, headers |-> <<"text/html">>, json |-> JsonNone] }

NoFail == NotFound

\* the service during one call of the caller: it answers the requests of the
\* call from p, except the failAt-th, which gets fail (failAt = 0: none);
\* a call that makes at most n requests and reads only some of p draws from
\* Service(names, ids, rels, n, fails)
Service(names, ids, rels, n, fails) ==
    [p : [name : names, id : ids, rel : rels], failAt : {0}, fail : {NoFail}]
    \cup [p : [name : names, id : ids, rel : rels], failAt : 1..n, fail : fails]

\* the response to req, the k-th request of the call
Answer(s, k, req) ==
    IF s.failAt = k THEN s.fail
    ELSE [status_code |-> IF req.method = "POST" THEN 201 ELSE 200,
          headers |-> <<"application/json", " charset=UTF-8">>,
          json |-> [data |-> Data(req, s.p)]]

\* api.get / api.post / api.put as the k-th request of a call
api_get(s, k, resource, endpoint) ==
    get(resource, endpoint,
        Answer(s, k, Request("GET", resource, endpoint, NoData)))
api_post(s, k, resource, endpoint, data) ==
    post(resource, endpoint, data,
         Answer(s, k, Request("POST", resource, endpoint, data)))
api_put(s, k, resource, endpoint, data) ==
    put(resource, endpoint, data,
        Answer(s, k, Request("PUT", resource, endpoint, data)))

----
(* Resource layer *)

\* AsanaResource._utcstr_to_datetime: the timestamp, counted in milliseconds,
\* becomes a datetime, which counts microseconds
_utcstr_to_datetime(ts) == ts * 1000

\* a call that raised e after the requests of log
Fail(log, e) == [log |-> log, out |-> e]
\* a constructor that got jr after the requests of log and built o
Built(log, o) == [log |-> log, out |-> Return(o)]

\* the attributes the constructors set from the record jr; the object gets
\* identity ref
UserObject(ref, jr) ==
    [kind |-> "User", ref |-> ref, resrc |-> "users",
     _id |-> jr.id, _name |-> jr.name, _email |-> jr.email]

WorkspaceObject(ref, jr) ==
    [kind |-> "Workspace", ref |-> ref, resrc |-> "workspaces",
     _id |-> jr.id, _name |-> jr.name]

StoryObject(ref, jr) ==
    [kind |-> "Story", ref |-> ref, resrc |-> "stories",
     _id |-> jr.id, _text |-> jr.text, _source |-> jr.source,
     _story_type |-> jr.type,
     _created_at |-> _utcstr_to_datetime(jr.created_at)]

TaskObject(ref, jr) ==
    [kind |-> "Task", ref |-> ref, resrc |-> "tasks",
     _id |-> jr.id, _name |-> jr.name, _notes |-> jr.notes,
     _assignee_status |-> jr.assignee_status,
     _created_at |-> _utcstr_to_datetime(jr.created_at),
     _modified_at |-> _utcstr_to_datetime(jr.modified_at),
     _completed_at |-> IF Truthy(jr.completed_at)
                       THEN _utcstr_to_datetime(jr.completed_at) ELSE JsonNone,
     _completed |-> jr.completed, _due_on |-> jr.due_on,
     _tags |-> jr.tags, _projects |-> jr.projects, _workspace |-> JsonNone]

TagObject(ref, jr) ==
    [kind |-> "Tag", ref |-> ref, resrc |-> "tags",
     _id |-> jr.id, _name |-> jr.name, _notes |-> jr.notes,
     _created_at |-> _utcstr_to_datetime(jr.created_at),
     _workspace |-> JsonNone]

ProjectObject(ref, jr) ==
    [kind |-> "Project", ref |-> ref, resrc |-> "projects",
     _id |-> jr.id, _name |-> jr.name, _notes |-> jr.notes,
     _archived |-> jr.archived,
     _created_at |-> _utcstr_to_datetime(jr.created_at),
     _modified_at |-> _utcstr_to_datetime(jr.modified_at),
     _workspace |-> JsonNone]

\* the rest of a constructor after its request c (jr = self.api.get(..) or
\* jr = self.api.post(..)): the exception of c, or the object made of jr
Object(kind, ref, jr) ==
    CASE kind = "User" -> UserObject(ref, jr)
      [] kind = "Workspace" -> WorkspaceObject(ref, jr)
      [] kind = "Story" -> StoryObject(ref, jr)
      [] kind = "Task" -> TaskObject(ref, jr)
      [] kind = "Tag" -> TagObject(ref, jr)
      [] kind = "Project" -> ProjectObject(ref, jr)
FromRecord(kind, ref, c) ==
    IF Raised(c.out) THEN c ELSE Built(c.log, Object(kind, ref, c.out.value))

\* User.__init__(api, user_id)
UserInit(s, k, ref, user_id) ==
    FromRecord("User", ref, api_get(s, k, "users", Endpoint(user_id, "")))

\* Workspace.__init__(api, workspace_id)
WorkspaceInit(s, k, ref, workspace_id) ==
    FromRecord("Workspace", ref, api_get(s, k, "workspaces", Endpoint(workspace_id, "")))

\* Story.__init__(api, story_id)
StoryInit(s, k, ref, story_id) ==
    FromRecord("Story", ref, api_get(s, k, "stories", Endpoint(story_id, "")))

\* the first test of Task.__init__: two of the three ids are given
\* (a variant that misses the pair task_id, parent_id)
TaskIdsConflictLoose(task_id, workspace_id, parent_id) ==
    \/ PyTruthy(task_id) /\ PyTruthy(workspace_id)
    \/ PyTruthy(workspace_id) /\ PyTruthy(parent_id)
TaskIdsConflict(task_id, workspace_id, parent_id) ==
    \/ PyTruthy(task_id) /\ PyTruthy(workspace_id)
    \/ PyTruthy(workspace_id) /\ PyTruthy(parent_id)
    \/ PyTruthy(task_id) /\ PyTruthy(parent_id)

\* Task.__init__(api, task_id, workspace_id, parent_id, **kwargs)
TaskInit(s, k, ref, task_id, workspace_id, parent_id, kwargs) ==
    IF TaskIdsConflict(task_id, workspace_id, parent_id)
    THEN Fail(<<>>, AsanaError("A Task must be created with exactly one of task_id, workspace_id, or parent_id"))
    ELSE IF PyTruthy(task_id) /\ DOMAIN kwargs # {}
    THEN Fail(<<>>, AsanaError("Bad arguments"))
    ELSE IF ~PyTruthy(task_id) /\ ~PyTruthy(workspace_id) /\ ~PyTruthy(parent_id)
    THEN Fail(<<>>, AsanaError("Bug encountered."))
    ELSE FromRecord("Task", ref,
                    IF PyTruthy(task_id)
                    THEN api_get(s, k, "tasks", Endpoint(task_id.v, ""))
                    ELSE IF PyTruthy(workspace_id)
                    THEN api_post(s, k, "tasks", NoEndpoint,
                                  kwargs @@ ("workspace" :> workspace_id.v))
                    ELSE api_post(s, k, "tasks", Endpoint(parent_id.v, "subtasks"),
                                  kwargs))

\* the payload Tag.__init__ and Project.__init__ build; "" stands for a
\* name or notes that is None or empty
CreatePayload(workspace_id, name, notes, archived) ==
    (IF archived THEN ("archived" :> TRUE) ELSE <<>>)
    @@ (IF notes # "" THEN ("notes" :> notes) ELSE <<>>)
    @@ (IF name # "" THEN ("name" :> name) ELSE <<>>)
    @@ ("workspace" :> workspace_id.v)

\* Tag.__init__(api, tag_id, workspace_id, name, notes)
TagInit(s, k, ref, tag_id, workspace_id, name, notes) ==
    IF PyTruthy(tag_id) /\ PyTruthy(workspace_id)
    THEN Fail(<<>>, AsanaError("Requires a tag_id or workspace_id (not both)."))
    ELSE IF \/ PyTruthy(workspace_id) /\ PyTruthy(tag_id)
            \/ PyTruthy(tag_id) /\ (name # "" \/ notes # "")
    THEN Fail(<<>>, AsanaError("Bad Arguments."))
    ELSE IF ~PyTruthy(tag_id) /\ ~PyTruthy(workspace_id)
    THEN Fail(<<>>, Raise("UnboundLocalError"))
    ELSE FromRecord("Tag", ref,
                    IF PyTruthy(tag_id)
                    THEN api_get(s, k, "tags", Endpoint(tag_id.v, ""))
                    ELSE api_post(s, k, "tags", NoEndpoint,
                                  CreatePayload(workspace_id, name, notes, FALSE)))

\* Project.__init__(api, project_id, workspace_id, name, notes, archived)
ProjectInit(s, k, ref, project_id, workspace_id, name, notes, archived) ==
    IF PyTruthy(project_id) /\ PyTruthy(workspace_id)
    THEN Fail(<<>>, AsanaError("Bad Arguments"))
    ELSE IF PyTruthy(project_id) /\ (name # "" \/ notes # "" \/ archived)
    THEN Fail(<<>>, AsanaError("Bad Arguments"))
    ELSE IF ~PyTruthy(project_id) /\ ~PyTruthy(workspace_id)
    THEN Fail(<<>>, Raise("UnboundLocalError"))
    ELSE FromRecord("Project", ref,
                    IF PyTruthy(project_id)
                    THEN api_get(s, k, "projects", Endpoint(project_id.v, ""))
                    ELSE api_post(s, k, "projects", NoEndpoint,
                                  CreatePayload(workspace_id, name, notes, archived)))

----
(* Resource layer: properties and methods.  Each takes the service s and  *)
(* the object self, and yields the object afterwards, the requests made   *)
(* and the result.                                                         *)

Done(self, log, out) == [obj |-> self, log |-> log, out |-> out]

\* identities of the objects reachable from self; a new object gets another
Live(self) ==
    {self.ref} \cup (IF "_workspace" \in DOMAIN self /\ self._workspace # JsonNone
                     THEN {self._workspace.ref} ELSE {})
NewRef(self, n) == (CHOOSE m \in Live(self) : \A x \in Live(self) : x <= m) + n

\* cls(self.api, id) for a class given by name
New(cls, s, k, ref, id) ==
    CASE cls = "User" -> UserInit(s, k, ref, id)
      [] cls = "Workspace" -> WorkspaceInit(s, k, ref, id)
      [] cls = "Story" -> StoryInit(s, k, ref, id)
      [] cls = "Task" -> TaskInit(s, k, ref, PyInt(id), PyNone, PyNone, <<>>)
      [] cls = "Tag" -> TagInit(s, k, ref, PyInt(id), PyNone, "", "")
      [] cls = "Project" -> ProjectInit(s, k, ref, PyInt(id), PyNone, "", "", FALSE)

\* [cls(self.api, elt['id']) for elt in elts], from the k-th request on:
\* the object h of the first record, then the objects t of the others
Prepend(h, t) ==
    IF Raised(h.out) THEN h
    ELSE IF Raised(t.out) THEN Fail(h.log \o t.log, t.out)
    ELSE Built(h.log \o t.log, <<h.out.value>> \o t.out.value)

RECURSIVE Comprehension(_, _, _, _, _)
Comprehension(cls, s, k, ref, elts) ==
    IF elts = <<>> THEN Built(<<>>, <<>>)
    ELSE Prepend(New(cls, s, k, ref, Head(elts).id),
                 Comprehension(cls, s, k + 1, ref + 1, Tail(elts)))

\* an accessor that made the call c and then the constructor calls n
\* returns what n gave
After(self, c, n) == Done(self, c.log \o n.log, n.out)

\* after the call c of the accessor: return cls(self.api, id)
ThenOne(s, self, c, cls, id) ==
    After(self, c, New(cls, s, 2, NewRef(self, 1), id))

\* after the call c of the accessor: return the list of cls objects of x
ThenEach(s, self, c, cls, x) ==
    IF ~IsList(x) THEN Done(self, c.log, Raise("TypeError"))
    ELSE After(self, c, Comprehension(cls, s, 2, NewRef(self, 1), x.list))

\* jr = self.api.get(self.resrc, self._id)
GetSelf(s, self) == api_get(s, 1, self.resrc, Endpoint(self._id, ""))
\* jr = self.api.get(self.resrc, '%s/<sub>' % self._id)
GetSub(s, self, sub) == api_get(s, 1, self.resrc, Endpoint(self._id, sub))

\* Each accessor is its first statement, the call c that gives jr, and the
\* statements after it (<accessor>Return, with jr == c.out.value).

\* User.workspaces
UserWorkspacesReturn(s, self, c) ==
    IF Raised(c.out) THEN Done(self, c.log, c.out)
    ELSE ThenEach(s, self, c, "Workspace", c.out.value.workspaces)
UserWorkspaces(s, self) == UserWorkspacesReturn(s, self, GetSelf(s, self))

\* Task.parent
TaskParentReturn(s, self, c) ==
    IF Raised(c.out) THEN Done(self, c.log, c.out)
    ELSE IF Truthy(c.out.value.parent)
    THEN ThenOne(s, self, c, "User", c.out.value.parent.id)
    ELSE Done(self, c.log, Return(JsonNone))
TaskParent(s, self) == TaskParentReturn(s, self, GetSelf(s, self))

\* Task.workspace
TaskWorkspaceReturn(s, self, c) ==
    IF Raised(c.out) THEN Done(self, c.log, c.out)
    ELSE ThenOne(s, self, c, "Workspace", c.out.value.workspace.id)
TaskWorkspace(s, self) == TaskWorkspaceReturn(s, self, GetSelf(s, self))

\* Task.assignee (the getter)
TaskAssigneeReturn(s, self, c) ==
    IF Raised(c.out) THEN Done(self, c.log, c.out)
    ELSE IF Truthy(c.out.value.assignee)
    THEN ThenOne(s, self, c, "User", c.out.value.assignee.id)
    ELSE Done(self, c.log, Return(JsonNone))
TaskAssignee(s, self) == TaskAssigneeReturn(s, self, GetSelf(s, self))

\* Task.followers
TaskFollowersReturn(s, self, c) ==
    IF Raised(c.out) THEN Done(self, c.log, c.out)
    ELSE IF Truthy(c.out.value.followers)
    THEN ThenEach(s, self, c, "User", c.out.value.followers)
    ELSE Done(self, c.log, Return(<<>>))
TaskFollowers(s, self) == TaskFollowersReturn(s, self, GetSelf(s, self))

\* Task.projects
TaskProjectsReturn(s, self, c) ==
    IF Raised(c.out) THEN Done(self, c.log, c.out)
    ELSE IF Truthy(c.out.value.projects)
    THEN ThenEach(s, self, c, "Project", c.out.value.projects)
    ELSE Done(self, c.log, Return(<<>>))
TaskProjects(s, self) == TaskProjectsReturn(s, self, GetSelf(s, self))

\* Task.tags, Task.subtasks, Task.comments, Project.tasks, Project.comments,
\* Workspace.users, Workspace.projects, Workspace.tags:
\* jr = get(resrc, '<id>/<sub>'); return [cls(api, elt['id']) for elt in jr]
SubCollectionReturn(s, self, c, cls) ==
    IF Raised(c.out) THEN Done(self, c.log, c.out)
    ELSE ThenEach(s, self, c, cls, c.out.value)
SubCollection(s, self, sub, cls) ==
    SubCollectionReturn(s, self, GetSub(s, self, sub), cls)

\* Tag.followers, Project.followers
FollowersReturn(s, self, c) ==
    IF Raised(c.out) THEN Done(self, c.log, c.out)
    ELSE ThenEach(s, self, c, "User", c.out.value.followers)
Followers(s, self) == FollowersReturn(s, self, GetSelf(s, self))

\* Tag.tasks: jr is subscripted with 'tasks', and each record becomes a Tag
TagTasksReturn(s, self, c) ==
    IF Raised(c.out) THEN Done(self, c.log, c.out)
    ELSE IF GetItemError(c.out.value, "tasks") # "None"
    THEN Done(self, c.log, Raise(GetItemError(c.out.value, "tasks")))
    ELSE ThenEach(s, self, c, "Tag", c.out.value.tasks)
TagTasks(s, self) == TagTasksReturn(s, self, GetSub(s, self, "tasks"))

\* Tag.workspace and Project.workspace: fetched once, then kept.
\* self._workspace = Workspace(..) after the call c and the constructor w
KeepWorkspace(self, c, w) ==
    IF Raised(w.out) THEN Done(self, c.log \o w.log, w.out)
    ELSE Done([self EXCEPT !._workspace = w.out.value],
              c.log \o w.log, Return(w.out.value))
\* the body of 'if not self._workspace', after jr = self.api.get(..)
FetchWorkspace(s, self, c) ==
    IF Raised(c.out) THEN Done(self, c.log, c.out)
    ELSE KeepWorkspace(self, c,
                       WorkspaceInit(s, 2, NewRef(self, 1), c.out.value.workspace.id))
\* (a variant without the test of self._workspace)
WorkspaceAlwaysFetched(s, self) ==
    FetchWorkspace(s, self, GetSelf(s, self))
MemoWorkspace(s, self) ==
    IF self._workspace = JsonNone
    THEN FetchWorkspace(s, self, GetSelf(s, self))
    ELSE Done(self, <<>>, Return(self._workspace))

\* Story.created_by
StoryCreatedByReturn(s, self, c) ==
    IF Raised(c.out) THEN Done(self, c.log, c.out)
    ELSE ThenOne(s, self, c, "User", c.out.value.created_by.id)
StoryCreatedBy(s, self) == StoryCreatedByReturn(s, self, GetSelf(s, self))

\* the properties defined with property(lambda self: self._x)
PlainProperties(kind) ==
    CASE kind = "User" -> {"id", "name", "email"}
      [] kind = "Workspace" -> {"id", "name"}
      [] kind = "Story" -> {"id", "text", "source", "story_type", "created_at"}
      [] kind = "Tag" -> {"id", "name", "notes", "created_at"}
      [] kind = "Project" -> {"id", "name", "notes", "archived", "created_at",
                              "modified_at"}
      [] kind = "Task" -> {"id", "name", "notes", "created_at", "modified_at",
                           "completed_at", "due_on", "completed", "assignee_status"}
      [] OTHER -> {}

\* the properties that go to the service
Relationships(kind) ==
    CASE kind = "User" -> {"workspaces"}
      [] kind = "Workspace" -> {"users", "projects", "tags"}
      [] kind = "Story" -> {"created_by"}
      [] kind = "Tag" -> {"workspace", "followers", "tasks"}
      [] kind = "Project" -> {"workspace", "tasks", "followers", "comments"}
      [] kind = "Task" -> {"parent", "workspace", "assignee", "followers",
                           "projects", "tags", "subtasks", "comments"}
      [] OTHER -> {}

\* the attribute behind a plain property
Attr(f) ==
    CASE f = "id" -> "_id"
      [] f = "name" -> "_name"
      [] f = "email" -> "_email"
      [] f = "notes" -> "_notes"
      [] f = "text" -> "_text"
      [] f = "source" -> "_source"
      [] f = "story_type" -> "_story_type"
      [] f = "archived" -> "_archived"
      [] f = "completed" -> "_completed"
      [] f = "completed_at" -> "_completed_at"
      [] f = "created_at" -> "_created_at"
      [] f = "modified_at" -> "_modified_at"
      [] f = "due_on" -> "_due_on"
      [] f = "assignee_status" -> "_assignee_status"

\* self.<f> for a plain property
Getter(self, f) == self[Attr(f)]

\* reading self.<f>
ReadProperty(s, self, f) ==
    CASE f \in PlainProperties(self.kind) -> Done(self, <<>>, Return(Getter(self, f)))
      [] self.kind = "User" /\ f = "workspaces" -> UserWorkspaces(s, self)
      [] self.kind = "Workspace" /\ f = "users" -> SubCollection(s, self, "users", "User")
      [] self.kind = "Workspace" /\ f = "projects" ->
           SubCollection(s, self, "projects", "Project")
      [] self.kind = "Workspace" /\ f = "tags" -> SubCollection(s, self, "tags", "Tag")
      [] self.kind = "Story" /\ f = "created_by" -> StoryCreatedBy(s, self)
      [] self.kind = "Tag" /\ f = "workspace" -> MemoWorkspace(s, self)
      [] self.kind = "Tag" /\ f = "followers" -> Followers(s, self)
      [] self.kind = "Tag" /\ f = "tasks" -> TagTasks(s, self)
      [] self.kind = "Project" /\ f = "workspace" -> MemoWorkspace(s, self)
      [] self.kind = "Project" /\ f = "tasks" -> SubCollection(s, self, "tasks", "Task")
      [] self.kind = "Project" /\ f = "followers" -> Followers(s, self)
      [] self.kind = "Project" /\ f = "comments" ->
           SubCollection(s, self, "stories", "Story")
      [] self.kind = "Task" /\ f = "parent" -> TaskParent(s, self)
      [] self.kind = "Task" /\ f = "workspace" -> TaskWorkspace(s, self)
      [] self.kind = "Task" /\ f = "assignee" -> TaskAssignee(s, self)
      [] self.kind = "Task" /\ f = "followers" -> TaskFollowers(s, self)
      [] self.kind = "Task" /\ f = "projects" -> TaskProjects(s, self)
      [] self.kind = "Task" /\ f = "tags" -> SubCollection(s, self, "tags", "Tag")
      [] self.kind = "Task" /\ f = "subtasks" -> SubCollection(s, self, "subtasks", "Task")
      [] self.kind = "Task" /\ f = "comments" -> SubCollection(s, self, "stories", "Story")

\* the body shared by the setters: put {key: v}, then self.<attr> = v
Stored(self, c, attr, v) ==
    IF Raised(c.out) THEN Done(self, c.log, c.out)
    ELSE Done([self EXCEPT ![attr] = v], c.log, Return(JsonNone))
\* (a variant that stores the attribute before the put returns)
StoredAnyway(self, c, attr, v) ==
    Done([self EXCEPT ![attr] = v], c.log,
         IF Raised(c.out) THEN c.out ELSE Return(JsonNone))
StoreThenPut(s, self, key, attr, v) ==
    StoredAnyway(self, api_put(s, 1, self.resrc, Endpoint(self._id, ""), key :> v),
                 attr, v)
PutThenStore(s, self, key, attr, v) ==
    Stored(self, api_put(s, 1, self.resrc, Endpoint(self._id, ""), key :> v),
           attr, v)

\* Task.assignee_status setter
ok_status == {"upcoming", "inbox", "later", "today"}
TaskSetAssigneeStatus(s, self, status) ==
    IF status \notin ok_status
    THEN Done(self, <<>>, AsanaError("status must be one of {upcoming,inbox,later,today,upcoming}"))
    ELSE PutThenStore(s, self, "status", "_assignee_status", status)

\* the properties with a setter (Task.assignee apart)
\* (a variant in which id has a setter like that of name)
SettableWithId(kind) ==
    CASE kind = "Workspace" -> {"name", "id"}
      [] kind = "Tag" -> {"name", "notes", "id"}
      [] kind = "Project" -> {"archived", "name", "notes", "id"}
      [] kind = "Task" -> {"assignee_status", "name", "notes", "completed", "id"}
      [] OTHER -> {}
Settable(kind) ==
    CASE kind = "Workspace" -> {"name"}
      [] kind = "Tag" -> {"name", "notes"}
      [] kind = "Project" -> {"archived", "name", "notes"}
      [] kind = "Task" -> {"assignee_status", "name", "notes", "completed"}
      [] OTHER -> {}

\* self.<f> = v: the setter of f, and without one "can't set attribute"
SetProperty(s, self, f, v) ==
    CASE f \notin Settable(self.kind) -> Done(self, <<>>, Raise("AttributeError"))
      [] self.kind = "Task" /\ f = "assignee_status" -> TaskSetAssigneeStatus(s, self, v)
      [] OTHER -> PutThenStore(s, self, f, Attr(f), v)

\* the object arguments _change_obj takes for a datatype
\* (a variant that takes a Tag or a Project for either datatype)
AcceptsAnyResource(arg, datatype) ==
    isinstance(arg, "Tag") \/ isinstance(arg, "Project")
AcceptsResource(arg, datatype) ==
    \/ datatype = "tag" /\ isinstance(arg, "Tag")
    \/ datatype = "project" /\ isinstance(arg, "Project")

\* Task._change_obj(arg, endpoint, datatype)
Posted(self, c) ==
    Done(self, c.log, IF Raised(c.out) THEN c.out ELSE Return(JsonNone))
_change_obj(s, self, arg, endpoint, datatype) ==
    Posted(self,
           IF isinstance(arg, "int") \/ isinstance(arg, "str")
           THEN api_post(s, 1, self.resrc, endpoint, datatype :> arg)
           ELSE IF AcceptsResource(arg, datatype)
           THEN api_post(s, 1, self.resrc, endpoint, datatype :> PyInt(arg.id))
           ELSE Fail(<<>>, AsanaError("Requires an int, str, or datatype")))

add_project(s, self, project) ==
    _change_obj(s, self, project, Endpoint(self._id, "addProject"), "project")
remove_project(s, self, project) ==
    _change_obj(s, self, project, Endpoint(self._id, "removeProject"), "project")
add_tag(s, self, tag) ==
    _change_obj(s, self, tag, Endpoint(self._id, "addTag"), "tag")
remove_tag(s, self, tag) ==
    _change_obj(s, self, tag, Endpoint(self._id, "removeTag"), "tag")

\* Task.add_comment and Project.add_comment
\* return Story(self.api, jr['id']), after the post c
StoryOfId(s, self, c) ==
    IF Raised(c.out) THEN Done(self, c.log, c.out)
    ELSE ThenOne(s, self, c, "Story", c.out.value.id)
\* (a variant that makes the Story of the record the post returned)
StoryOfPost(self, c) ==
    IF Raised(c.out) THEN Done(self, c.log, c.out)
    ELSE Done(self, c.log, Return(StoryObject(NewRef(self, 1), c.out.value)))
StoryFromPost(s, self, text) ==
    StoryOfPost(self, api_post(s, 1, self.resrc, Endpoint(self._id, "stories"),
                               [text |-> text]))
add_comment(s, self, text) ==
    StoryOfId(s, self, api_post(s, 1, self.resrc, Endpoint(self._id, "stories"),
                                [text |-> text]))

\* Task.assignee setter.  user_id = user.id raises AsanaError for a value
\* without the attribute; after the put, the statement self.assignee = user
\* is an assignment to the property, so it enters the setter again (the
\* entry-th time), and so on until a put raises or the interpreter stops the
\* recursion with RuntimeError
ReEntered(self, c, inner) ==
    IF Raised(c.out) THEN Done(self, c.log, c.out)
    ELSE Done(self, c.log \o inner.log, inner.out)

RECURSIVE TaskSetAssignee(_, _, _, _)
TaskSetAssignee(s, self, user, entry) ==
    IF entry > RecursionLimit THEN Done(self, <<>>, Raise("RuntimeError"))
    ELSE IF "id" \notin DOMAIN user
    THEN Done(self, <<>>, AsanaError("Requires a User object."))
    ELSE ReEntered(self,
                   api_put(s, entry, self.resrc, Endpoint(self._id, ""),
                           "assignee" :> user.id),
                   TaskSetAssignee(s, self, user, entry + 1))

\* Task(self.api, <scope>=self._id, kwargs=kwargs): the keyword argument
\* named kwargs is collected by **kwargs of Task.__init__, which so gets
\* {'kwargs': fields}; the caller keeps self and is returned the new Task
Created(self, n) == Done(self, n.log, n.out)

\* Workspace.create_task(**kwargs)
create_task(s, self, fields) ==
    Created(self, TaskInit(s, 1, NewRef(self, 1), PyNone, PyInt(self._id), PyNone,
                           [kwargs |-> fields]))

\* Task.add_subtask(**kwargs)
add_subtask(s, self, fields) ==
    Created(self, TaskInit(s, 1, NewRef(self, 1), PyNone, PyNone, PyInt(self._id),
                           [kwargs |-> fields]))

----
(* State *)

\* obj: the resource object the caller holds (NoObj before the first one)
\* last: the caller's last call: its name and arguments, the requests it
\*       issued with the responses they got, and its result
NoObj == [kind |-> "none"]
NoCall == [op |-> "none", log |-> <<>>, out |-> Return(JsonNone)]

Init ==
    /\ obj = NoObj
    /\ last = NoCall

\* the requests of a log
Reqs(log) == [i \in 1..Len(log) |-> log[i].req]

\* a direct call of api.get / api.post / api.put, answered by r
ClientCall ==
    \E method \in {"GET", "POST", "PUT"}, r \in Responses :
        /\ last' = [op |-> "client", response |-> r] @@
                   (CASE method = "GET" -> get("tasks", Endpoint(1, ""), r)
                      [] method = "POST" -> post("tasks", NoEndpoint, [name |-> "a"], r)
                      [] method = "PUT" -> put("tasks", Endpoint(1, ""), [name |-> "a"], r))
        /\ UNCHANGED obj

NextTransport == ClientCall

SpecTransport == Init /\ [][NextTransport]_vars

\* the ids a caller passes to a constructor: absent, zero, or an id
IdArgs == {PyNone, PyInt(0)} \cup {PyInt(i) : i \in Ids}
\* name and notes arguments; "" stands for None
StrArgs == {"", "a"}
KwArgs == { <<>>, [name |-> "b", notes |-> "a"] }

\* the services of a constructor, of a call that makes one request and
\* ignores the data, of a relationship accessor, and of add_comment
OneRecord == Service(Names, Ids, {0}, 1, FailResponses)
OneRequest == Service({"a"}, {1}, {0}, 1, FailResponses)
Related == Service({"a"}, {2}, 0..MaxRel, MaxRel + 1, {NotFound})
Comment == Service(Names, Ids, {0}, 2, FailResponses)
\* the service of create_task and add_subtask
OneCreated == Service({"a"}, {2}, {0}, 1, {NotFound})
\* the service of add_tag and the like, which post once and ignore the data
OnePost == Service({"a"}, {1}, {0}, 1, {NotFound})
\* a call that makes no request
NoRequest == Service({"a"}, {1}, {0}, 0, {})

\* the caller's first call constructs its object, which it then holds (the
\* constructors read nothing of the state, so a second try adds nothing)
Constructed(op, args, c) ==
    /\ obj = NoObj /\ last = NoCall
    /\ obj' = IF Raised(c.out) THEN obj ELSE c.out.value
    /\ last' = [op |-> op, args |-> args, log |-> c.log, out |-> c.out]

\* the caller calls a method or touches a property of its object
Called(op, args, h) ==
    /\ obj' = h.obj
    /\ last' = [op |-> op, args |-> args, log |-> h.log, out |-> h.out]

NewUser ==
    \E s \in OneRecord, i \in Ids :
        Constructed("User", [id |-> PyInt(i)], UserInit(s, 1, 1, i))

NewWorkspace ==
    \E s \in OneRecord, i \in Ids :
        Constructed("Workspace", [id |-> PyInt(i)], WorkspaceInit(s, 1, 1, i))

NewStory ==
    \E s \in OneRecord, i \in Ids :
        Constructed("Story", [id |-> PyInt(i)], StoryInit(s, 1, 1, i))

NewTask ==
    \E s \in OneRecord, task_id \in IdArgs, workspace_id \in IdArgs,
       parent_id \in IdArgs, kwargs \in KwArgs :
        Constructed("Task",
                    [id |-> task_id, workspace_id |-> workspace_id,
                     parent_id |-> parent_id, kwargs |-> kwargs],
                    TaskInit(s, 1, 1, task_id, workspace_id, parent_id, kwargs))

NewTag ==
    \E s \in OneRecord, tag_id \in IdArgs, workspace_id \in IdArgs,
       name \in StrArgs, notes \in StrArgs :
        Constructed("Tag",
                    [id |-> tag_id, workspace_id |-> workspace_id,
                     parent_id |-> PyNone, name |-> name, notes |-> notes],
                    TagInit(s, 1, 1, tag_id, workspace_id, name, notes))

NewProject ==
    \E s \in OneRecord, project_id \in IdArgs, workspace_id \in IdArgs,
       name \in StrArgs, notes \in StrArgs, archived \in BOOLEAN :
        Constructed("Project",
                    [id |-> project_id, workspace_id |-> workspace_id,
                     parent_id |-> PyNone, name |-> name, notes |-> notes,
                     archived |-> archived],
                    ProjectInit(s, 1, 1, project_id, workspace_id, name, notes, archived))

\* the values a caller assigns to a property
Values(f) ==
    CASE f \in {"name", "notes"} -> Names
      [] f \in {"completed", "archived"} -> BOOLEAN
      [] f = "assignee_status" -> {"later", "never"}
      [] f = "id" -> Ids

\* obj.<f> = v
Assign ==
    \E s \in OneRequest, f \in Settable(obj.kind) \cup {"id"} : \E v \in Values(f) :
        /\ obj # NoObj
        /\ Called("set", [field |-> f, value |-> v], SetProperty(s, obj, f, v))

\* obj.<f>
Read ==
    \E f \in PlainProperties(obj.kind) \cup Relationships(obj.kind) :
      \E s \in IF f \in Relationships(obj.kind) THEN Related ELSE NoRequest :
        /\ obj # NoObj
        /\ Called("get", [field |-> f], ReadProperty(s, obj, f))

\* what a caller passes to add_tag and the like
ChangeArgs ==
    {PyInt(i) : i \in Ids} \cup {PyStr(ToString(i)) : i \in Ids}
    \cup {PyObj("Tag", i) : i \in Ids}
    \cup {PyObj("Project", 1), PyObj("User", 1), PyFloat(1), PyNone,
          PyBool(TRUE), PyUnicode("1")}

AddProject ==
    \E s \in OnePost, arg \in ChangeArgs :
        /\ obj.kind = "Task"
        /\ Called("add_project", [arg |-> arg], add_project(s, obj, arg))

RemoveProject ==
    \E s \in OnePost, arg \in ChangeArgs :
        /\ obj.kind = "Task"
        /\ Called("remove_project", [arg |-> arg], remove_project(s, obj, arg))

AddTag ==
    \E s \in OnePost, arg \in ChangeArgs :
        /\ obj.kind = "Task"
        /\ Called("add_tag", [arg |-> arg], add_tag(s, obj, arg))

RemoveTag ==
    \E s \in OnePost, arg \in ChangeArgs :
        /\ obj.kind = "Task"
        /\ Called("remove_tag", [arg |-> arg], remove_tag(s, obj, arg))

AddComment ==
    \E s \in Comment, text \in {"a"} :
        /\ obj.kind \in {"Task", "Project"}
        /\ Called("add_comment", [text |-> text], add_comment(s, obj, text))

\* what a caller assigns to Task.assignee
AssigneeArgs == {PyObj("User", i) : i \in Ids} \cup {PyInt(1), PyNone}

\* the service during an assignment to Task.assignee
Puts == Service({"a"}, {1}, {0}, RecursionLimit, {NotFound})

\* obj.assignee = user
SetAssignee ==
    \E s \in Puts, user \in AssigneeArgs :
        /\ obj.kind = "Task"
        /\ Called("set_assignee", [value |-> user], TaskSetAssignee(s, obj, user, 1))

\* obj.create_task(**fields)
CreateTask ==
    \E s \in OneCreated, fields \in KwArgs :
        /\ obj.kind = "Workspace"
        /\ Called("create_task", [fields |-> fields], create_task(s, obj, fields))

\* obj.add_subtask(**fields)
AddSubtask ==
    \E s \in OneCreated, fields \in KwArgs :
        /\ obj.kind = "Task"
        /\ Called("add_subtask", [fields |-> fields], add_subtask(s, obj, fields))

\* all the calls
Next ==
    \/ NewUser
    \/ NewWorkspace
    \/ NewStory
    \/ NewTask
    \/ NewTag
    \/ NewProject
    \/ Assign
    \/ Read
    \/ AddProject
    \/ RemoveProject
    \/ AddTag
    \/ RemoveTag
    \/ AddComment
    \/ SetAssignee
    \/ CreateTask
    \/ AddSubtask

Spec == Init /\ [][Next]_vars

\* the constructors alone
NextNew ==
    \/ NewUser
    \/ NewWorkspace
    \/ NewStory
    \/ NewTask
    \/ NewTag
    \/ NewProject

SpecNew == Init /\ [][NextNew]_vars

\* an object and its setters
NextAssign ==
    \/ NextNew
    \/ Assign

SpecAssign == Init /\ [][NextAssign]_vars

\* an object and its methods
NextMethods ==
    \/ NextNew
    \/ AddProject
    \/ RemoveProject
    \/ AddTag
    \/ RemoveTag
    \/ AddComment

SpecMethods == Init /\ [][NextMethods]_vars

\* the setters of the objects that keep their workspace
AssignTagOrProject == obj.kind \in {"Tag", "Project"} /\ Assign

\* an object, its properties and its comments
NextRead ==
    \/ NextNew
    \/ AssignTagOrProject
    \/ Read
    \/ AddComment

SpecRead == Init /\ [][NextRead]_vars

\* a task and the assignments to its assignee
NextAssignee ==
    \/ NextNew
    \/ SetAssignee

SpecAssignee == Init /\ [][NextAssignee]_vars

\* an object and the tasks created from it
NextCreate ==
    \/ NextNew
    \/ CreateTask
    \/ AddSubtask

SpecCreate == Init /\ [][NextCreate]_vars

----
(* Claims *)

\* a response that is a failure: an error status or a page that is not JSON
BadResponse(r) ==
    r.status_code \notin {200, 201} \/ Head(r.headers) # "application/json"

\* the ids a constructor call was given, out of existing id, workspace id and
\* parent task id
Supplied(args) ==
    {k \in {"id", "workspace_id", "parent_id"} : PyTruthy(args[k])}

\* C1: constructing a Task, Tag or Project with more than one of existing id,
\* workspace id and parent task id raises AsanaError, and no request is
\* issued before it
C1_ConflictingIdsRaise ==
    (last.op \in {"Task", "Tag", "Project"} /\ Cardinality(Supplied(last.args)) > 1)
        => (last.out.exc = "AsanaError" /\ last.log = <<>>)

C1_Witness ==
    /\ last.op = "Task"
    /\ Supplied(last.args) = {"id", "parent_id"}
    /\ last.out.exc = "AsanaError"
    /\ last.log = <<>>

\* C2: assigning v to a settable field f (Task.assignee apart, and an allowed
\* status for assignee_status) issues exactly one request, a PUT of {f: v} to
\* <resource>/<id>, and when it returns, reading f gives v
C2_SetterPutsFieldAndStores ==
    ( /\ last.op = "set"
      /\ last.args.field \in Settable(obj.kind)
      /\ last.args.field = "assignee_status" => last.args.value \in ok_status )
        => /\ Reqs(last.log) =
                << Request("PUT", obj.resrc, Endpoint(obj._id, ""),
                           last.args.field :> last.args.value) >>
           /\ ~Raised(last.out) => Getter(obj, last.args.field) = last.args.value

\* C3: whatever the status code, a response whose content-type is not
\* application/json makes get/post/put raise AsanaError
C3_NotJsonRaisesAsanaError ==
    (last.op = "client" /\ Head(last.response.headers) # "application/json")
        => last.out.exc = "AsanaError"

\* the body of r is {"errors": [{"message": ..}, ..]}
IsErrorBody(r) == GetItemError(r.json, "errors") = "None"

\* C4: a response with status 400, 401, 403, 404 or 429 and an error body
\* makes get/post/put raise the AsanaError of the status check, with the
\* message of the body; the content-type check and the 'data' field are not
\* reached.  With status 200 or 201 a JSON response returns its 'data' field
C4_ListedStatusRaisesMessage ==
    last.op = "client" =>
        /\ (last.response.status_code \in {400, 401, 403, 404, 429}
              /\ IsErrorBody(last.response))
             => /\ last.out.exc = "AsanaError"
                /\ DOMAIN last.out = {"exc", "status", "message"}
                /\ last.out.status = last.response.status_code
                /\ last.out.message = last.response.json.errors.list[1].message
        /\ (last.response.status_code \in {200, 201}
              /\ ~BadResponse(last.response)
              /\ GetItemError(last.response.json, "data") = "None")
             => last.out = Return(last.response.json.data)

C4_Witness ==
    /\ last.op = "client"
    /\ last.response.status_code = 429
    /\ Head(last.response.headers) = "text/html"
    /\ last.out.exc = "AsanaError"
    /\ last.out.message = "oops"

\* C5: a JSON response with status 500 and body {"errors": [{"message": m,
\* "phrase": p}]} makes get/post/put raise an AsanaError that carries m and p
C5_ServerErrorCarriesPhrase ==
    ( /\ last.op = "client"
      /\ last.response.status_code = 500
      /\ Head(last.response.headers) = "application/json"
      /\ IsErrorBody(last.response)
      /\ "phrase" \in DOMAIN last.response.json.errors.list[1] )
        => /\ last.out.exc = "AsanaError"
           /\ {"message", "phrase"} \subseteq DOMAIN last.out
           /\ last.out.message = last.response.json.errors.list[1].message
           /\ last.out.phrase = last.response.json.errors.list[1].phrase

\* the form a payload value takes in the body of the request: requests
\* form-encodes data, so the integer 5 and the string '5' are both sent as 5
FormValue(x) == IF x.t \in {"str", "unicode"} THEN x.s ELSE ToString(x.v)
FormEncoded(data) == [k \in DOMAIN data |-> FormValue(data[k])]

\* the resource class add_tag/remove_tag and add_project/remove_project take
MatchingClass(op) == IF op \in {"add_tag", "remove_tag"} THEN "Tag" ELSE "Project"

\* C6: add_tag with an integer id i, with the string of i, or with a Tag
\* whose id is i issues exactly one request, a POST to tasks/<t>/addTag whose
\* payload is sent as {"tag": i}; add_tag, remove_tag, add_project and
\* remove_project with an argument that is no int, no str and no resource of
\* the matching class raise AsanaError and issue no request
C6_ChangeObjNormalizesArgument ==
    /\ last.op = "add_tag" =>
         \A i \in Ids :
            last.args.arg \in {PyInt(i), PyStr(ToString(i)), PyObj("Tag", i)}
              => /\ Len(last.log) = 1
                 /\ last.log[1].req.method = "POST"
                 /\ last.log[1].req.resource = "tasks"
                 /\ last.log[1].req.endpoint = Endpoint(obj._id, "addTag")
                 /\ FormEncoded(last.log[1].req.data) = ("tag" :> ToString(i))
    /\ ( /\ last.op \in {"add_tag", "remove_tag", "add_project", "remove_project"}
         /\ ~isinstance(last.args.arg, "int")
         /\ ~isinstance(last.args.arg, "str")
         /\ ~isinstance(last.args.arg, MatchingClass(last.op)) )
           => (last.out.exc = "AsanaError" /\ last.log = <<>>)

C6_Witness ==
    /\ last.op = "add_tag"
    /\ last.args.arg = PyObj("Tag", 2)
    /\ ~Raised(last.out)
    /\ FormEncoded(last.log[1].req.data) = ("tag" :> "2")

\* the assignment of the call did not go through: the argument is rejected,
\* or the response to the PUT is a failure
SetterFailed(call) ==
    \/ call.args.field = "assignee_status" /\ call.args.value \notin ok_status
    \/ call.log # <<>> /\ BadResponse(call.log[1].resp)

\* C7: when the PUT of a setter fails (an error status, a response that is
\* not JSON) or the argument is rejected, the setter raises and every
\* attribute of the object is as it was before the assignment
C7_FailedSetterChangesNothing ==
    [][ (last'.op = "set" /\ last'.args.field \in Settable(obj.kind)
           /\ SetterFailed(last'))
          => (Raised(last'.out) /\ obj' = obj) ]_vars

C7_Witness ==
    /\ last.op = "set"
    /\ last.args.field = "notes"
    /\ last.log # <<>> /\ last.log[1].resp.status_code = 404
    /\ Raised(last.out)
    /\ obj._notes # last.args.value

\* the memoized relationships
Memoized(self, f) == self.kind \in {"Tag", "Project"} /\ f = "workspace"

C9_AddCommentPostsThenGets ==
    last.op = "add_comment" =>
        /\ last.log # <<>>
        /\ last.log[1].req = Request("POST", obj.resrc, Endpoint(obj._id, "stories"),
                                     [text |-> last.args.text])
        /\ IF BadResponse(last.log[1].resp)
           THEN Len(last.log) = 1 /\ Raised(last.out)
           ELSE /\ Len(last.log) = 2
                /\ last.log[2].req =
                     Request("GET", "stories",
                             Endpoint(last.log[1].resp.json.data.id, ""), NoData)
                /\ Raised(last.out) <=> BadResponse(last.log[2].resp)
                /\ ~Raised(last.out) =>
                     LET jr == last.log[2].resp.json.data IN
                     /\ last.out.value.kind = "Story"
                     /\ last.out.value._id = jr.id
                     /\ last.out.value._text = jr.text
                     /\ last.out.value._source = jr.source
                     /\ last.out.value._story_type = jr.type

C9_Witness ==
    /\ last.op = "add_comment"
    /\ obj.kind = "Project"
    /\ Len(last.log) = 2
    /\ ~Raised(last.out)
    /\ last.out.value._text # last.args.text

\* the class of the objects of a relationship, by the data model
RelatedClass(kind, f) ==
    CASE f \in {"workspace", "workspaces"} -> "Workspace"
      [] f \in {"parent", "subtasks", "tasks"} -> "Task"
      [] f \in {"assignee", "followers", "users", "created_by"} -> "User"
      [] f = "projects" -> "Project"
      [] f = "tags" -> "Tag"
      [] f = "comments" -> "Story"

\* the relationships to one object, and among them the optional ones
ToOne == {"parent", "workspace", "assignee", "created_by"}

\* the records of relationship f in the data of the accessor's first response
RelatedRecords(f, data) == IF IsList(data) THEN data.list ELSE data[f].list

\* C10: when the service answers, a relationship accessor returns one object
\* of the related class for each record of the response (Tag.tasks gives
\* Tasks, Task.parent a Task); an absent parent or assignee gives None, and
\* an empty followers or projects list gives []
C10_RelationshipsWrapRelatedClass ==
    ( /\ last.op = "get"
      /\ last.args.field \in Relationships(obj.kind)
      /\ \A i \in 1..Len(last.log) : ~BadResponse(last.log[i].resp) )
        => /\ ~Raised(last.out)
           /\ IF Memoized(obj, last.args.field)
              THEN last.out.value.kind = "Workspace"
              ELSE LET data == last.log[1].resp.json.data
                       cls == RelatedClass(obj.kind, last.args.field)
                   IN  IF last.args.field \in ToOne
                       THEN IF data[last.args.field] = JsonNone
                            THEN last.out.value = JsonNone
                            ELSE /\ last.out.value # JsonNone
                                 /\ last.out.value.kind = cls
                                 /\ last.out.value._id = data[last.args.field].id
                       ELSE LET recs == RelatedRecords(last.args.field, data) IN
                            /\ Len(last.out.value) = Len(recs)
                            /\ \A i \in 1..Len(recs) :
                                 /\ last.out.value[i].kind = cls
                                 /\ last.out.value[i]._id = recs[i].id

\* C11: the id of an object is the id of the record its constructor got, a
\* read of id returns it, and no call on the object (an assignment, also one
\* to id or to Task.assignee, a read, add/remove tag/project, add_comment,
\* create_task, add_subtask), whether it returns or raises, changes it
C11_IdIsImmutable ==
    [][ /\ (obj = NoObj /\ obj' # NoObj)
             => obj'._id = last'.log[Len(last'.log)].resp.json.data.id
        /\ obj # NoObj
             => /\ obj' # NoObj
                /\ obj'._id = obj._id
                /\ (last'.op = "get" /\ last'.args.field = "id")
                      => last'.out = Return(obj._id) ]_vars

C11_Witness ==
    /\ obj.kind = "Task"
    /\ last.op = "set" /\ last.args.field = "name"
    /\ ~Raised(last.out)
    /\ obj._name = last.args.value
    /\ obj._notes # obj._name
    /\ obj._id = 2

\* C12: assigning a User object u to Task.assignee on task t issues exactly
\* one request, a PUT of {"assignee": u.id} to tasks/<t>, and returns when
\* that PUT succeeds; assigning a value without an id attribute raises
\* AsanaError and issues no request
C12_AssigneeSetterPutsOnce ==
    last.op = "set_assignee" =>
        IF "id" \in DOMAIN last.args.value
        THEN /\ Reqs(last.log) =
                  << Request("PUT", "tasks", Endpoint(obj._id, ""),
                             "assignee" :> last.args.value.id) >>
             /\ ~BadResponse(last.log[1].resp) => ~Raised(last.out)
        ELSE last.out.exc = "AsanaError" /\ last.log = <<>>

\* C13: create_task(**fields) on workspace w issues exactly one request, a
\* POST to tasks whose payload is fields and {"workspace": w}; add_subtask(
\* **fields) on task t issues exactly one request, a POST to
\* tasks/<t>/subtasks whose payload is fields
C13_CreatePayloadIsFields ==
    /\ last.op = "create_task" =>
          Reqs(last.log) =
            << Request("POST", "tasks", NoEndpoint,
                       last.args.fields @@ ("workspace" :> obj._id)) >>
    /\ last.op = "add_subtask" =>
          Reqs(last.log) =
            << Request("POST", "tasks", Endpoint(obj._id, "subtasks"),
                       last.args.fields) >>

\* C14: get/post/put return a payload only for status 200 or 201; for every
\* other status the call raises AsanaError
C14_OtherStatusRaisesAsanaError ==
    (last.op = "client" /\ last.response.status_code \notin {200, 201})
        => last.out.exc = "AsanaError"

\* C15: constructing a Task, Tag or Project with none of existing id,
\* workspace id and parent task id supplied (absent or falsy) raises
\* AsanaError and issues no request
C15_NoIdRaisesAsanaError ==
    (last.op \in {"Task", "Tag", "Project"} /\ Supplied(last.args) = {})
        => (last.out.exc = "AsanaError" /\ last.log = <<>>)

====
